---------------------------- MODULE Spec2Model ----------------------------
(***************************************************************************)
(* A model of src/LightField.cpp: the three light field commands of        *)
(* ImageStack, -lffocalstack, -lfwarp and -lfpoint, run on the image       *)
(* stack.  One behaviour is one command: Init holds the image stack the    *)
(* command finds, the parse step draws the command's arguments, and the    *)
(* loops of the apply function run one iteration per step.                 *)
(*                                                                         *)
(* Numbers.  The code computes in float.  Every real number of the model   *)
(* is a fraction with a fixed denominator, kept as its integer numerator:  *)
(* alpha values over AlphaDen, point coordinates over PointDen, map        *)
(* coordinates over CoordDen.  With power-of-two denominators and the      *)
(* small ranges used here every float operation of the code is exact, so   *)
(* the integer arithmetic below is the arithmetic of the code.             *)
(***************************************************************************)
EXTENDS Integers, Sequences, FiniteSets, TLC

\* ------------------------------------------------------------- bounds
\* largest spatial extent xSize, ySize of a light field
MaxSpatial == 2
\* largest lenslet extent uSize, vSize
MaxLenslet == 2
\* largest width, height and frame count of a coordinate map
MaxMapDim == 2
\* minAlpha, maxAlpha, deltaAlpha range over -MaxAlphaNum..MaxAlphaNum (over AlphaDen)
MaxAlphaNum == 3
\* denominator of the alpha values
AlphaDen == 2
\* denominator of the point coordinates px, py, pz
PointDen == 4
\* pz ranges over -MaxPz..MaxPz (over PointDen)
MaxPz == 3
\* denominator of the coordinates stored in a coordinate map
CoordDen == 4
\* number of frames the counting loop may run before the model stops following it
MaxCount == 2 * MaxAlphaNum + 2

\* ------------------------------------------------------------ variables
VARIABLES
    stack,      \* the image stack, top first: stack[1] is stack(0)
    cmd,        \* the command being run
    nargs,      \* args.size()
    args,       \* the parsed arguments
    pc,         \* position in the command
    err,        \* the message of the failed assert, "" if none
    lf,         \* the LightField: its extents and the stack slot of its image
    warper,     \* LFWarp::apply's coordinate map
    quick,      \* LFWarp::apply's mode
    out,        \* the output image of apply
    view,       \* LFFocalStack::apply's current view
    sample,     \* LFWarp::apply's sample vector
    frames, alpha, t, x, y, u, v,   \* loop variables
    lx, ly, lu, lv,                 \* LFWarp::apply's scaled coordinates (over CoordDen)
    ilx, ily, ilu, ilv,             \* LFWarp::apply's integer indices
    fault       \* an access outside an image buffer has happened

vars == <<stack, cmd, nargs, args, pc, err, lf, warper, quick, out, view, sample,
          frames, alpha, t, x, y, u, v, lx, ly, lu, lv, ilx, ily, ilu, ilv, fault>>

\* ------------------------------------------------------------ arithmetic
Abs(n) == IF n < 0 THEN -n ELSE n

Max(a, b) == IF a >= b THEN a ELSE b

\* the C cast (int)(n/d) for d > 0: truncation toward zero
TruncDiv(n, d) == IF n >= 0 THEN n \div d ELSE -((-n) \div d)

\* n/d rounded to the nearest integer, a tie going up (d > 0)
RoundNearest(n, d) == (2 * n + d) \div (2 * d)

\* n/d rounded to the nearest integer, a tie going away from zero (C's roundf)
RoundAway(n, d) == IF n >= 0 THEN (2 * n + d) \div (2 * d) ELSE -((2 * (-n) + d) \div (2 * d))

\* clamp(a, lo, hi) of the ImageStack headers
clamp(a, lo, hi) == IF a < lo THEN lo ELSE IF a > hi THEN hi ELSE a

RECURSIVE SumSeq(_)
SumSeq(s) == IF s = <<>> THEN 0 ELSE Head(s) + SumSeq(Tail(s))

\* ------------------------------------------------------------ images
\* the index set of a w x h x f x c image
Indices(w, h, f, c) == (0..(w-1)) \X (0..(h-1)) \X (0..(f-1)) \X (0..(c-1))

\* NewImage(width, height, frames, channels): a zeroed image
NewImage(w, h, f, c) ==
    [width |-> w, height |-> h, frames |-> f, channels |-> c,
     data |-> [i \in Indices(w, h, f, c) |-> 0]]

\* a default constructed image, holding nothing
NoImage == [width |-> 0, height |-> 0, frames |-> 0, channels |-> 0, data |-> <<>>]

\* the content of the light field buffers of the model: values 2, 3, 4
Pixel(bx, by, f, c) == 2 + ((bx + 2 * by + f + c) % 3)

LFBuffer(w, h, f, c) ==
    [width |-> w, height |-> h, frames |-> f, channels |-> c,
     data |-> [i \in Indices(w, h, f, c) |-> Pixel(i[1], i[2], i[3], i[4])]]

\* (x, y, t, c) is an element of image im
InBuffer(im, bx, by, f, c) ==
    /\ bx \in 0..(im.width-1) /\ by \in 0..(im.height-1)
    /\ f \in 0..(im.frames-1) /\ c \in 0..(im.channels-1)

\* the contents of an image that was written outside its buffer, or that holds a value
\* read outside another: they are not known, and not followed further
Indeterminate == <<>>

\* the values a read outside an image buffer may give
Garbage == {0, 1}

\* ------------------------------------------------------------ light field
\* LightField(image, uSize, vSize): the extents; image is the stack slot of the buffer
LightField(slot, im, uSize, vSize) ==
    [image |-> slot, uSize |-> uSize, vSize |-> vSize,
     xSize |-> im.width \div uSize, ySize |-> im.height \div vSize]

\* the buffer pixel of the ray (x, y, u, v)
LFIndex(L, xx, yy, uu, vv) == <<xx * L.uSize + uu, yy * L.vSize + vv>>

\* lf(x, y, u, v, c) on frame 0 of image im
LFAt(L, im, xx, yy, uu, vv, c) ==
    im.data[<<LFIndex(L, xx, yy, uu, vv)[1], LFIndex(L, xx, yy, uu, vv)[2], 0, c>>]

NoLF == [image |-> 0, uSize |-> 0, vSize |-> 0, xSize |-> 0, ySize |-> 0]

NoArgs == [uSize |-> 0, vSize |-> 0, minAlpha |-> 0, maxAlpha |-> 0, deltaAlpha |-> 0,
           px |-> 0, py |-> 0, pz |-> 0]

LensletChoices(im) ==
    {uv \in (1..MaxLenslet) \X (1..MaxLenslet) :
        /\ im.width % uv[1] = 0 /\ im.height % uv[2] = 0
        /\ im.width \div uv[1] <= MaxSpatial /\ im.height \div uv[2] <= MaxSpatial}


\* ------------------------------------------------------------ initial state
\* the light field buffers a command may find on the stack
LFBuffers(maxFrames, maxChannels) ==
    {LFBuffer(xs * us, ys * vs, f, c) :
        xs \in 1..MaxSpatial, us \in 1..MaxLenslet,
        ys \in 1..MaxSpatial, vs \in 1..MaxLenslet,
        f \in 1..maxFrames, c \in 1..maxChannels}

\* ------------------------------------------------------------ -lffocalstack
AlphaNums == (-MaxAlphaNum)..MaxAlphaNum

DeltaNums == (-1)..MaxAlphaNum

FramesMsg == "Can only turn a single light field into a focal stack"

\* the loop condition with the upper bound left out
LoopCondStrict(a, maxAlpha) == a < maxAlpha

\* line 34, 42: the condition of both alpha loops
LoopCond(a, maxAlpha) == a <= maxAlpha

\* the shift test with the products taken apart
NeedsShiftEither(a, uu, vv) == (a # 0) \/ (uu # 0) \/ (vv # 0)

\* line 58: the shift test
NeedsShift(a, uu, vv) == (a * uu # 0) \/ (a * vv # 0)

\* line 59: the offset (u - (uSize-1)*0.5) * alpha, over 2*AlphaDen
ShiftOffset(a, uu, size) == (2 * uu - (size - 1)) * a

\* line 64: the blur test fabs(alpha) > 1
NeedsBlur(a) == Abs(a) > AlphaDen

\* the precondition letting any positive frame count through
SomeFrame(im) == im.frames >= 1

\* line 31: the precondition of LFFocalStack::apply
SingleFrame(im) == im.frames = 1

\* lines 49-55: the view (u, v) of the light field
GetView(L, im, uu, vv) ==
    [i \in (0..(L.xSize-1)) \X (0..(L.ySize-1)) \X (0..(im.channels-1)) |->
        LFAt(L, im, i[1], i[2], uu, vv, i[3])]

\* a view image: its pixels, and what Translate and LanczosBlur have done to it
View(uu, vv, data) ==
    [u |-> uu, v |-> vv, data |-> data, shifted |-> FALSE, dx |-> 0, dy |-> 0, blur |-> 0]

\* Translate::apply(im, dx, dy), offsets over 2*AlphaDen
Translate(im, dx, dy) == [im EXCEPT !.shifted = TRUE, !.dx = dx, !.dy = dy]

\* LanczosBlur::apply(im, r, r, 0), r over AlphaDen
LanczosBlur(im, r) == [im EXCEPT !.blur = r]

\* lines 48-67: the view (u, v) extracted, shifted and blurred for depth a.  After
\* view = shifted or view = prefiltered the next extraction still overwrites every
\* pixel of view, so each view starts from the values of the light field.
ProcessView(L, im, a, uu, vv) ==
    LET got == View(uu, vv, GetView(L, im, uu, vv))
        sh  == IF NeedsShift(a, uu, vv)
               THEN Translate(got, ShiftOffset(a, uu, L.uSize), ShiftOffset(a, vv, L.vSize))
               ELSE got
    IN  IF NeedsBlur(a) THEN LanczosBlur(sh, Abs(a)) ELSE sh

\* line 36: the output image, each frame the list of the views added to it and
\* the list of the numbers it was divided by
FocalImage(w, h, f, c) ==
    [width |-> w, height |-> h, frames |-> f, channels |-> c,
     data |-> [i \in 0..(f-1) |-> [sum |-> <<>>, div |-> <<>>]]]

\* line 78: out /= n
Divide(im, n) ==
    [im EXCEPT !.data = [i \in DOMAIN im.data |->
                            [im.data[i] EXCEPT !.div = Append(@, n)]]]

\* line 22: the argument count is wrong
LFFocalStackUsage ==
    /\ pc = "parse" /\ cmd = "lffocalstack" /\ nargs # 5
    /\ pc' = "error" /\ err' = "-lffocalstack takes five arguments."
    /\ UNCHANGED <<stack, cmd, nargs, args, lf, warper, quick, out, view, sample,
                   frames, alpha, t, x, y, u, v, lx, ly, lu, lv, ilx, ily, ilu, ilv, fault>>

\* lines 21-24, 30-34: parse the arguments, build the light field, enter apply
LFFocalStackParse ==
    /\ pc = "parse" /\ cmd = "lffocalstack" /\ nargs = 5
    /\ \E uv \in LensletChoices(stack[1]), mn \in AlphaNums, mx \in AlphaNums, d \in DeltaNums :
         /\ args' = [NoArgs EXCEPT !.uSize = uv[1], !.vSize = uv[2],
                                   !.minAlpha = mn, !.maxAlpha = mx, !.deltaAlpha = d]
         /\ lf' = LightField(1, stack[1], uv[1], uv[2])
         /\ IF SingleFrame(stack[1])
            THEN /\ pc' = "count" /\ err' = err
                 /\ frames' = 0 /\ alpha' = mn
            ELSE /\ pc' = "error" /\ err' = FramesMsg
                 /\ UNCHANGED <<frames, alpha>>
    /\ UNCHANGED <<stack, cmd, nargs, warper, quick, out, view, sample,
                   t, x, y, u, v, lx, ly, lu, lv, ilx, ily, ilu, ilv, fault>>

\* line 34: one iteration of the counting loop
CountFrame ==
    /\ pc = "count" /\ LoopCond(alpha, args.maxAlpha) /\ frames < MaxCount
    /\ frames' = frames + 1
    /\ alpha' = alpha + args.deltaAlpha
    /\ UNCHANGED <<stack, cmd, nargs, args, pc, err, lf, warper, quick, out, view, sample,
                   t, x, y, u, v, lx, ly, lu, lv, ilx, ily, ilu, ilv, fault>>

\* lines 36-42: the counting loop ends; allocate out and view, start the computing loop
AllocOutput ==
    /\ pc = "count" /\ ~LoopCond(alpha, args.maxAlpha)
    /\ out' = FocalImage(lf.xSize, lf.ySize, frames, stack[lf.image].channels)
    /\ view' = View(0, 0, [i \in (0..(lf.xSize-1)) \X (0..(lf.ySize-1))
                                  \X (0..(stack[lf.image].channels-1)) |-> 0])
    /\ t' = 0 /\ alpha' = args.minAlpha /\ u' = 0 /\ v' = 0
    /\ pc' = "compute"
    /\ UNCHANGED <<stack, cmd, nargs, args, err, lf, warper, quick, sample,
                   frames, x, y, lx, ly, lu, lv, ilx, ily, ilu, ilv, fault>>

\* lines 47-71: one iteration of the view loops, out.frame(t) += view
AccumulateView ==
    /\ pc = "compute" /\ LoopCond(alpha, args.maxAlpha) /\ v < lf.vSize
    /\ view' = ProcessView(lf, stack[lf.image], alpha, u, v)
    /\ IF t \in DOMAIN out.data
       THEN /\ out' = [out EXCEPT !.data[t].sum = Append(@, view')]
            /\ fault' = fault
       ELSE /\ out' = out /\ fault' = TRUE
    /\ IF u + 1 < lf.uSize
       THEN u' = u + 1 /\ v' = v
       ELSE u' = 0 /\ v' = v + 1
    /\ UNCHANGED <<stack, cmd, nargs, args, pc, err, lf, warper, quick, sample,
                   frames, alpha, t, x, y, lx, ly, lu, lv, ilx, ily, ilu, ilv>>

\* lines 42, 74: the views of a frame are done, go to the next depth
NextDepth ==
    /\ pc = "compute" /\ LoopCond(alpha, args.maxAlpha) /\ v = lf.vSize
    /\ t' = t + 1
    /\ alpha' = alpha + args.deltaAlpha
    /\ u' = 0 /\ v' = 0
    /\ UNCHANGED <<stack, cmd, nargs, args, pc, err, lf, warper, quick, out, view, sample,
                   frames, x, y, lx, ly, lu, lv, ilx, ily, ilu, ilv, fault>>

\* lines 78-80, 25-26: renormalize, return, pop the light field, push the focal stack
LFFocalStackReturn ==
    /\ pc = "compute" /\ ~LoopCond(alpha, args.maxAlpha)
    /\ out' = Divide(out, lf.uSize * lf.vSize)
    /\ stack' = <<out'>> \o Tail(stack)
    /\ pc' = "done"
    /\ UNCHANGED <<cmd, nargs, args, err, lf, warper, quick, view, sample,
                   frames, alpha, t, x, y, u, v, lx, ly, lu, lv, ilx, ily, ilu, ilv, fault>>

FocalNext ==
    \/ LFFocalStackUsage \/ LFFocalStackParse \/ CountFrame \/ AllocOutput
    \/ AccumulateView \/ NextDepth \/ LFFocalStackReturn

InitLocals ==
    /\ args = NoArgs /\ pc = "parse" /\ err = "" /\ lf = NoLF
    /\ warper = NoImage /\ quick = FALSE /\ out = NoImage
    /\ view = View(0, 0, <<>>) /\ sample = <<>>
    /\ frames = 0 /\ alpha = 0 /\ t = 0 /\ x = 0 /\ y = 0 /\ u = 0 /\ v = 0
    /\ lx = 0 /\ ly = 0 /\ lu = 0 /\ lv = 0
    /\ ilx = 0 /\ ily = 0 /\ ilu = 0 /\ ilv = 0
    /\ fault = FALSE

FocalInit ==
    /\ cmd = "lffocalstack"
    /\ nargs \in {4, 5}
    /\ \E im \in LFBuffers(2, 1) : stack = <<im>>
    /\ InitLocals

FocalSpec == FocalInit /\ [][FocalNext]_vars

\* ------------------------------------------------------------ -lfpoint
\* the projection with the rounding term + 0.5 left out
ProjectPixelTruncated(p, pz, uu, usize, size) ==
    TruncDiv((2 * p + pz * (2 * uu + 1 - usize)) * size, 2 * PointDen)

\* lines 171, 174: (int)((p + pz * pu) * size + 0.5) with pu = uu + 0.5 - usize * 0.5;
\* p and pz are over PointDen, so the cast's argument is the fraction below
ProjectPixel(p, pz, uu, usize, size) ==
    TruncDiv((2 * p + pz * (2 * uu + 1 - usize)) * size + PointDen, 2 * PointDen)

\* line 176: the projected pixel is outside the view
OutOfView(L, xx, yy) == xx < 0 \/ xx >= L.xSize \/ yy < 0 \/ yy >= L.ySize

\* lines 177-179: every channel of lf(x, y, u, v) set to 1
MarkPixel(L, im, xx, yy, uu, vv) ==
    [im EXCEPT !.data = [i \in DOMAIN im.data |->
        IF i[1] = LFIndex(L, xx, yy, uu, vv)[1] /\ i[2] = LFIndex(L, xx, yy, uu, vv)[2] /\ i[3] = 0
        THEN 1 ELSE im.data[i]]]

\* line 163: the argument count is wrong
LFPointUsage ==
    /\ pc = "parse" /\ cmd = "lfpoint" /\ nargs # 5
    /\ pc' = "error" /\ err' = "-lfpoint takes five arguments"
    /\ UNCHANGED <<stack, cmd, nargs, args, lf, warper, quick, out, view, sample,
                   frames, alpha, t, x, y, u, v, lx, ly, lu, lv, ilx, ily, ilu, ilv, fault>>

\* lines 162-165, 169-170: parse the arguments, build the light field, enter apply
LFPointParse ==
    /\ pc = "parse" /\ cmd = "lfpoint" /\ nargs = 5
    /\ \E uv \in LensletChoices(stack[1]), p \in 0..PointDen, q \in 0..PointDen,
          z \in (-MaxPz)..MaxPz :
         /\ args' = [NoArgs EXCEPT !.uSize = uv[1], !.vSize = uv[2],
                                   !.px = p, !.py = q, !.pz = z]
         /\ lf' = LightField(1, stack[1], uv[1], uv[2])
    /\ u' = 0 /\ v' = 0
    /\ pc' = "point"
    /\ UNCHANGED <<stack, cmd, nargs, err, warper, quick, out, view, sample,
                   frames, alpha, t, x, y, lx, ly, lu, lv, ilx, ily, ilu, ilv, fault>>

\* lines 170-180: one iteration of the view loops
MarkView ==
    /\ pc = "point" /\ v < lf.vSize
    /\ x' = ProjectPixel(args.px, args.pz, u, lf.uSize, lf.xSize)
    /\ y' = ProjectPixel(args.py, args.pz, v, lf.vSize, lf.ySize)
    /\ IF OutOfView(lf, x', y')
       THEN stack' = stack
       ELSE stack' = [stack EXCEPT ![lf.image] = MarkPixel(lf, @, x', y', u, v)]
    /\ IF u + 1 < lf.uSize
       THEN u' = u + 1 /\ v' = v
       ELSE u' = 0 /\ v' = v + 1
    /\ UNCHANGED <<cmd, nargs, args, pc, err, lf, warper, quick, out, view, sample,
                   frames, alpha, t, lx, ly, lu, lv, ilx, ily, ilu, ilv, fault>>

\* lines 169, 182: the loops end, apply and parse return
LFPointReturn ==
    /\ pc = "point" /\ v = lf.vSize
    /\ pc' = "done"
    /\ UNCHANGED <<stack, cmd, nargs, args, err, lf, warper, quick, out, view, sample,
                   frames, alpha, t, x, y, u, v, lx, ly, lu, lv, ilx, ily, ilu, ilv, fault>>

PointNext == LFPointUsage \/ LFPointParse \/ MarkView \/ LFPointReturn

PointInit ==
    /\ cmd = "lfpoint"
    /\ nargs \in {4, 5}
    /\ \E im \in LFBuffers(1, 2) : stack = <<im>>
    /\ InitLocals

PointSpec == PointInit /\ [][PointNext]_vars

\* ------------------------------------------------------------ -lfwarp
\* the denominator of an interpolated value: a product of four weights over CoordDen
ValDen == CoordDen * CoordDen * CoordDen * CoordDen

\* the coordinate quadruples (s, t, u, v) of the maps of the model, over CoordDen:
\* lattice points, points between them, and points below 0 and above 1
Quads ==
    << <<0, 0, 0, 0>>,
       <<CoordDen, CoordDen, CoordDen, CoordDen>>,
       <<0, CoordDen, 0, CoordDen>>,
       <<1 - CoordDen, CoordDen + 1, CoordDen \div 2, 2 * CoordDen - 1>>,
       <<-1 - CoordDen, 1, CoordDen - 1, CoordDen + 2>>,
       <<CoordDen \div 2, CoordDen \div 2, -1, 2 * CoordDen + 1>>,
       <<CoordDen, 0, CoordDen, 0>>,
       <<-3, -2 * CoordDen, 3 * CoordDen, -2>> >>

\* the coordinate map of shape w x h x f with c channels
CoordMap(w, h, f, c) ==
    [width |-> w, height |-> h, frames |-> f, channels |-> c,
     data |-> [i \in Indices(w, h, f, c) |->
                 IF i[4] < 4
                 THEN Quads[((i[1] + w * i[2] + w * h * i[3]) % Len(Quads)) + 1][i[4] + 1]
                 ELSE 0]]

ChannelsMsg == "Top image for -lfwarp must have 4 channels."

\* line 96: the precondition of -lfwarp
FourChannels(im) == im.channels = 4

\* line 118: the output image of LFWarp::apply
WarpOutput(w, L, im) == NewImage(w.frames, w.width, w.height, im.channels)

\* lines 125-128: a stored coordinate scaled to the extent size, over CoordDen
Scale(s, size) == s * (size - 1)

\* the index with the rounding term + 0.5 left out
QuickIndexTruncated(l, size) == clamp(TruncDiv(l, CoordDen), 0, size - 1)

\* lines 135-142: (int)(l + 0.5) clamped to 0..size-1, l over CoordDen
QuickIndex(l, size) == clamp(TruncDiv(2 * l + CoordDen, 2 * CoordDen), 0, size - 1)

\* the two lattice neighbours of l on an axis of extent size, clamped, with their weights
Corners(l, size) ==
    LET lo == l \div CoordDen
        fr == l - lo * CoordDen
    IN  << <<clamp(lo, 0, size - 1), CoordDen - fr>>, <<clamp(lo + 1, 0, size - 1), fr>> >>

\* sample4D(x, y, u, v, t, result): channel c of the quadrilinear interpolation on
\* frame f of the image, over ValDen
Sample4D(L, im, cx, cy, cu, cv, f, c) ==
    LET X == Corners(cx, L.xSize)
        Y == Corners(cy, L.ySize)
        U == Corners(cu, L.uSize)
        V == Corners(cv, L.vSize)
        term(i, j, k, m) ==
            X[i][2] * Y[j][2] * U[k][2] * V[m][2] *
            im.data[<<LFIndex(L, X[i][1], Y[j][1], U[k][1], V[m][1])[1],
                      LFIndex(L, X[i][1], Y[j][1], U[k][1], V[m][1])[2], f, c>>]
    IN  term(1,1,1,1) + term(1,1,1,2) + term(1,1,2,1) + term(1,1,2,2)
      + term(1,2,1,1) + term(1,2,1,2) + term(1,2,2,1) + term(1,2,2,2)
      + term(2,1,1,1) + term(2,1,1,2) + term(2,1,2,1) + term(2,1,2,2)
      + term(2,2,1,1) + term(2,2,1,2) + term(2,2,2,1) + term(2,2,2,2)

\* line 130: the frame LFWarp::apply asks sample4D to read
SampleFrame(tt) == tt

\* out(x, y, t, c) = val[c] for every channel; a write outside the buffer leaves
\* the contents of the image not known
WritePixel(im, xx, yy, tt, val) ==
    IF im.data = Indeterminate \/ ~InBuffer(im, xx, yy, tt, 0)
    THEN [im EXCEPT !.data = Indeterminate]
    ELSE [im EXCEPT !.data = [i \in DOMAIN im.data |->
            IF i[1] = xx /\ i[2] = yy /\ i[3] = tt THEN val[i[4]] ELSE im.data[i]]]

\* line 95: the argument count is wrong
LFWarpUsage ==
    /\ pc = "parse" /\ cmd = "lfwarp" /\ nargs < 2
    /\ pc' = "error" /\ err' = "-lfwarp takes at least two arguments."
    /\ UNCHANGED <<stack, cmd, nargs, args, lf, warper, quick, out, view, sample,
                   frames, alpha, t, x, y, u, v, lx, ly, lu, lv, ilx, ily, ilu, ilv, fault>>

\* lines 94-106, 118-124: check the map, parse the options, build the light field,
\* enter apply and allocate the output
LFWarpParse ==
    /\ pc = "parse" /\ cmd = "lfwarp" /\ nargs >= 2
    /\ IF ~FourChannels(stack[1])
       THEN /\ pc' = "error" /\ err' = ChannelsMsg
            /\ UNCHANGED <<args, lf, warper, quick, out, sample, t, x, y>>
       ELSE /\ \E uv \in LensletChoices(stack[2]),
                  q \in (IF nargs > 2 THEN BOOLEAN ELSE {FALSE}) :
                 /\ args' = [NoArgs EXCEPT !.uSize = uv[1], !.vSize = uv[2]]
                 /\ lf' = LightField(2, stack[2], uv[1], uv[2])
                 /\ quick' = q
            /\ warper' = stack[1]
            /\ out' = WarpOutput(stack[1], lf', stack[2])
            /\ sample' = [c \in 0..(stack[2].channels-1) |-> 0]
            /\ t' = 0 /\ y' = 0 /\ x' = 0
            /\ pc' = "warp" /\ err' = err
    /\ UNCHANGED <<stack, cmd, nargs, view, frames, alpha, u, v,
                   lx, ly, lu, lv, ilx, ily, ilu, ilv, fault>>

\* lines 125-146: one iteration of the pixel loops
WarpPixel ==
    /\ pc = "warp" /\ t < warper.frames
    /\ lx' = Scale(warper.data[<<x, y, t, 0>>], lf.xSize)
    /\ ly' = Scale(warper.data[<<x, y, t, 1>>], lf.ySize)
    /\ lu' = Scale(warper.data[<<x, y, t, 2>>], lf.uSize)
    /\ lv' = Scale(warper.data[<<x, y, t, 3>>], lf.vSize)
    /\ IF ~quick
       THEN /\ IF SampleFrame(t) < stack[lf.image].frames
               THEN sample' = [c \in DOMAIN sample |->
                                 Sample4D(lf, stack[lf.image], lx', ly', lu', lv',
                                          SampleFrame(t), c)]
               ELSE \E g \in Garbage : sample' = [c \in DOMAIN sample |-> g * ValDen]
            /\ out' = IF SampleFrame(t) < stack[lf.image].frames
                      THEN WritePixel(out, x, y, t, sample')
                      ELSE [out EXCEPT !.data = Indeterminate]
            /\ fault' = (fault \/ ~InBuffer(out, x, y, t, 0)
                               \/ SampleFrame(t) >= stack[lf.image].frames)
            /\ UNCHANGED <<ilx, ily, ilu, ilv>>
       ELSE /\ ilx' = QuickIndex(lx', lf.xSize)
            /\ ily' = QuickIndex(ly', lf.ySize)
            /\ ilu' = QuickIndex(lu', lf.uSize)
            /\ ilv' = QuickIndex(lv', lf.vSize)
            /\ out' = WritePixel(out, x, y, t,
                         [c \in DOMAIN sample |->
                            ValDen * LFAt(lf, stack[lf.image], ilx', ily', ilu', ilv', c)])
            /\ fault' = (fault \/ ~InBuffer(out, x, y, t, 0))
            /\ UNCHANGED sample
    /\ IF x + 1 < warper.width
       THEN x' = x + 1 /\ y' = y /\ t' = t
       ELSE /\ x' = 0
            /\ IF y + 1 < warper.height
               THEN y' = y + 1 /\ t' = t
               ELSE y' = 0 /\ t' = t + 1
    /\ UNCHANGED <<stack, cmd, nargs, args, pc, err, lf, warper, quick, view,
                   frames, alpha, u, v>>

\* an access outside a buffer may also end the process
Crash ==
    /\ pc = "warp" /\ fault
    /\ pc' = "crashed"
    /\ UNCHANGED <<stack, cmd, nargs, args, err, lf, warper, quick, out, view, sample,
                   frames, alpha, t, x, y, u, v, lx, ly, lu, lv, ilx, ily, ilu, ilv, fault>>

\* lines 150, 107-109: the loops end; return, pop the map and the light field, push out
LFWarpReturn ==
    /\ pc = "warp" /\ t = warper.frames
    /\ stack' = <<out>> \o Tail(Tail(stack))
    /\ pc' = "done"
    /\ UNCHANGED <<cmd, nargs, args, err, lf, warper, quick, out, view, sample,
                   frames, alpha, t, x, y, u, v, lx, ly, lu, lv, ilx, ily, ilu, ilv, fault>>

WarpNext == LFWarpUsage \/ LFWarpParse \/ WarpPixel \/ Crash \/ LFWarpReturn

WarpInit ==
    /\ cmd = "lfwarp"
    /\ nargs \in {1, 2, 3}
    /\ \E im \in LFBuffers(2, 1), w \in 1..MaxMapDim, h \in 1..MaxMapDim,
          f \in 1..MaxMapDim, c \in {3, 4} :
         stack = <<CoordMap(w, h, f, c), im>>
    /\ InitLocals

WarpSpec == WarpInit /\ [][WarpNext]_vars

\* ------------------------------------------------------------ all commands
Init == FocalInit \/ WarpInit \/ PointInit

Next == FocalNext \/ WarpNext \/ PointNext

Spec == Init /\ [][Next]_vars

\* ------------------------------------------------------------ properties
\* the light field buffer the command found on the stack
OrigLF == LFBuffer(lf.xSize * lf.uSize, lf.ySize * lf.vSize, 1, out.channels)

\* the depth of frame k
AlphaOf(k) == args.minAlpha + k * args.deltaAlpha

InApply == cmd = "lffocalstack" /\ pc \in {"compute", "done"}

\* the pixel loops of LFWarp::apply have run at least once
PixelDone == cmd = "lfwarp" /\ pc \in {"warp", "crashed"} /\ ~(x = 0 /\ y = 0 /\ t = 0)

\* C1: the image LFWarp::apply returns has the coordinate map's width, height and
\* frame count and the light field's channel count, whatever the map's shape.
C1_OutputShape ==
    /\ (cmd = "lfwarp" /\ pc = "warp") =>
          /\ out.width = warper.width /\ out.height = warper.height
          /\ out.frames = warper.frames
          /\ out.channels = stack[lf.image].channels
    /\ (cmd = "lfwarp" /\ pc = "done") =>
          /\ stack[1].width = warper.width /\ stack[1].height = warper.height
          /\ stack[1].frames = warper.frames

\* C2: -lffocalstack with deltaAlpha <= 0 is refused before any computation: it never
\* enters the counting loop and never returns an output image.
C2_NonPositiveStepRefused ==
    (cmd = "lffocalstack" /\ pc # "parse" /\ nargs = 5 /\ args.deltaAlpha <= 0) =>
        (pc = "error" /\ frames = 0 /\ out = NoImage)

\* C3: a light field with a frame count other than 1 (-lffocalstack) and a map with a
\* channel count other than 4 (-lfwarp) end the command at once with the error
\* reported, no output image allocated and the stack unchanged, and nothing runs
\* after the error.
C3_PreconditionAborts ==
    [][ /\ (pc = "parse" /\ cmd = "lffocalstack" /\ nargs = 5 /\ stack[1].frames # 1) =>
              (pc' = "error" /\ err' = FramesMsg /\ out' = NoImage /\ stack' = stack)
        /\ (pc = "parse" /\ cmd = "lfwarp" /\ nargs >= 2 /\ stack[1].channels # 4) =>
              (pc' = "error" /\ err' = ChannelsMsg /\ out' = NoImage /\ stack' = stack)
        /\ pc # "error" ]_vars

C3_Witness ==
    /\ cmd = "lffocalstack" /\ pc = "error" /\ err = FramesMsg
    /\ stack[1].frames = 2 /\ out = NoImage

\* C4 as claimed: for deltaAlpha > 0 the frame count is
\* floor((maxAlpha - minAlpha) / deltaAlpha) + 1.
C4_FrameCountFormula ==
    (InApply /\ args.deltaAlpha > 0) =>
        out.frames = ((args.maxAlpha - args.minAlpha) \div args.deltaAlpha) + 1

\* C4 as amended: for deltaAlpha > 0 the frame count is the number of depth samples
\* minAlpha + k*deltaAlpha <= maxAlpha, that is
\* max(0, floor((maxAlpha - minAlpha) / deltaAlpha) + 1), and the computing loop
\* fills the frames t = 0..frames-1 in turn, one per sample, t never reaching the
\* frame count while a sample is left.
C4_FrameCount ==
    (InApply /\ args.deltaAlpha > 0) =>
        /\ out.frames = Max(0, ((args.maxAlpha - args.minAlpha) \div args.deltaAlpha) + 1)
        /\ out.frames = Cardinality({k \in 0..MaxCount : AlphaOf(k) <= args.maxAlpha})
        /\ alpha = AlphaOf(t)
        /\ ~fault
        /\ \A k \in DOMAIN out.data :
              Len(out.data[k].sum) = IF k < t THEN lf.uSize * lf.vSize
                                     ELSE IF k = t THEN u + v * lf.uSize ELSE 0
        /\ (pc = "compute" /\ AlphaOf(t) <= args.maxAlpha) => t < out.frames
        /\ (pc = "done") => t = out.frames

C4_Witness ==
    /\ InApply /\ pc = "done" /\ args.deltaAlpha = 2 /\ out.frames = 3 /\ t = 3

\* the sum over all views of lf(x, y, u, v, c)
SumOfViews(L, im, xx, yy, c) ==
    SumSeq([i \in 1..(L.uSize * L.vSize) |->
              LFAt(L, im, xx, yy, (i - 1) % L.uSize, (i - 1) \div L.uSize, c)])

\* C5: the frame of a depth sample alpha = 0 is the plain average of the views: every
\* view is added exactly once, none translated, none blurred, the sum divided by
\* uSize*vSize exactly once.
C5_ZeroAlphaIsPlainAverage ==
    (cmd = "lffocalstack" /\ pc = "done") =>
        \A k \in DOMAIN out.data :
            AlphaOf(k) = 0 =>
                LET fr == out.data[k] IN
                /\ fr.div = <<lf.uSize * lf.vSize>>
                /\ Len(fr.sum) = lf.uSize * lf.vSize
                /\ \A uu \in 0..(lf.uSize-1), vv \in 0..(lf.vSize-1) :
                      Cardinality({i \in 1..Len(fr.sum) :
                                      fr.sum[i].u = uu /\ fr.sum[i].v = vv}) = 1
                /\ \A i \in 1..Len(fr.sum) :
                      /\ ~fr.sum[i].shifted /\ fr.sum[i].blur = 0
                      /\ fr.sum[i].data = GetView(lf, OrigLF, fr.sum[i].u, fr.sum[i].v)
                /\ \A xx \in 0..(lf.xSize-1), yy \in 0..(lf.ySize-1),
                      c \in 0..(out.channels-1) :
                      SumSeq([i \in 1..Len(fr.sum) |-> fr.sum[i].data[<<xx, yy, c>>]])
                          = SumOfViews(lf, OrigLF, xx, yy, c)

C5_Witness ==
    /\ cmd = "lffocalstack" /\ pc = "done" /\ lf.uSize = 2 /\ lf.vSize = 2
    /\ out.frames = 3 /\ AlphaOf(1) = 0 /\ Len(out.data[1].sum) = 4

\* C9: in LFFocalStack::apply the view (u, v) of depth alpha is translated by
\* (du*alpha, dv*alpha), du = u - (uSize-1)/2, dv = v - (vSize-1)/2, exactly when
\* alpha*du # 0 or alpha*dv # 0.
C9_CentredShift ==
    InApply =>
        \A k \in DOMAIN out.data : \A i \in 1..Len(out.data[k].sum) :
            LET w  == out.data[k].sum[i]
                dx == (2 * w.u - (lf.uSize - 1)) * AlphaOf(k)
                dy == (2 * w.v - (lf.vSize - 1)) * AlphaOf(k)
            IN  /\ w.shifted <=> (dx # 0 \/ dy # 0)
                /\ w.shifted => (w.dx = dx /\ w.dy = dy)

\* the view (uu, vv) has been through the loop body of LFPoint::apply
Marked(uu, vv) == vv < v \/ (vv = v /\ uu < u)

\* (p + pz * pu) * size, over 2*PointDen
Projection(p, pz, uu, usize, size) == (2 * p + pz * (2 * uu + 1 - usize)) * size

\* the view (uu, vv) of the light field on the stack is as the command found it
ViewUntouched(uu, vv) ==
    \A xx \in 0..(lf.xSize-1), yy \in 0..(lf.ySize-1), c \in 0..(stack[1].channels-1) :
        LFAt(lf, stack[1], xx, yy, uu, vv, c)
            = Pixel(LFIndex(lf, xx, yy, uu, vv)[1], LFIndex(lf, xx, yy, uu, vv)[2], 0, c)

\* C6: LFPoint::apply leaves a view unmodified whenever the projected pixel, rounded to
\* the nearest integer, is outside [0,xSize) x [0,ySize), and it writes the light
\* field only inside that range.
C6_OutOfViewUntouched ==
    (cmd = "lfpoint" /\ pc \in {"point", "done"}) =>
        /\ \A uu \in 0..(lf.uSize-1), vv \in 0..(lf.vSize-1) :
              (/\ Marked(uu, vv)
               /\ \/ RoundNearest(Projection(args.px, args.pz, uu, lf.uSize, lf.xSize),
                                  2 * PointDen) \notin 0..(lf.xSize-1)
                  \/ RoundNearest(Projection(args.py, args.pz, vv, lf.vSize, lf.ySize),
                                  2 * PointDen) \notin 0..(lf.ySize-1))
              => ViewUntouched(uu, vv)
        /\ \A i \in DOMAIN stack[1].data :
              stack[1].data[i] \in {1, Pixel(i[1], i[2], i[3], i[4])}

\* the point is (0.5, 0.5, 0) and LFPoint::apply has returned
CentrePointDone ==
    /\ cmd = "lfpoint" /\ pc = "done"
    /\ 2 * args.px = PointDen /\ 2 * args.py = PointDen /\ args.pz = 0

\* the light field on the stack is as found, but for the pixel (cx, cy) of every view,
\* whose channels are all 1
OnlyPixelMarked(cx, cy) ==
    \A xx \in 0..(lf.xSize-1), yy \in 0..(lf.ySize-1),
       uu \in 0..(lf.uSize-1), vv \in 0..(lf.vSize-1), c \in 0..(stack[1].channels-1) :
        LFAt(lf, stack[1], xx, yy, uu, vv, c) =
            IF xx = cx /\ yy = cy THEN 1
            ELSE Pixel(LFIndex(lf, xx, yy, uu, vv)[1], LFIndex(lf, xx, yy, uu, vv)[2], 0, c)

\* C7 as claimed: the point (0.5, 0.5, 0) sets all channels of one and the same spatial
\* pixel to 1 in every view and changes nothing else.
C7_CentreMarked ==
    CentrePointDone =>
        \E cx \in 0..(lf.xSize-1), cy \in 0..(lf.ySize-1) : OnlyPixelMarked(cx, cy)

\* C7 as amended: when xSize >= 2 and ySize >= 2 the point (0.5, 0.5, 0) sets all
\* channels of the pixel (floor((xSize+1)/2), floor((ySize+1)/2)) to 1 in every view
\* and changes nothing else; when xSize = 1 or ySize = 1 the projected pixel is outside
\* the view and the light field is left unchanged.
C7_CentreMarkedWhenInside ==
    CentrePointDone =>
        IF lf.xSize >= 2 /\ lf.ySize >= 2
        THEN OnlyPixelMarked((lf.xSize + 1) \div 2, (lf.ySize + 1) \div 2)
        ELSE \A uu \in 0..(lf.uSize-1), vv \in 0..(lf.vSize-1) : ViewUntouched(uu, vv)

C7_Witness ==
    /\ CentrePointDone /\ lf.xSize = 2 /\ lf.ySize = 2 /\ lf.uSize = 2 /\ lf.vSize = 2
    /\ stack[1].channels = 2
    /\ LFAt(lf, stack[1], 1, 1, 1, 1, 1) = 1

\* the scaled coordinate l is a lattice point of an axis of extent size
OnLattice(l, size) == l % CoordDen = 0 /\ l >= 0 /\ l <= (size - 1) * CoordDen

\* C8: on a map pixel that addresses a lattice point of the light field the
\* high-quality path computes the value the fast path reads, in every frame of the
\* map.
C8_ModesAgreeOnLattice ==
    (PixelDone /\ pc = "warp" /\ ~quick
       /\ OnLattice(lx, lf.xSize) /\ OnLattice(ly, lf.ySize)
       /\ OnLattice(lu, lf.uSize) /\ OnLattice(lv, lf.vSize)) =>
        \A c \in DOMAIN sample :
            sample[c] = ValDen * LFAt(lf, stack[lf.image], QuickIndex(lx, lf.xSize),
                                      QuickIndex(ly, lf.ySize), QuickIndex(lu, lf.uSize),
                                      QuickIndex(lv, lf.vSize), c)

\* l rounded to the nearest integer and clamped to 0..size-1, for either way of
\* rounding a tie
IsRoundedClamped(i, l, size) ==
    /\ i = clamp(RoundNearest(l, CoordDen), 0, size - 1)
    /\ i = clamp(RoundAway(l, CoordDen), 0, size - 1)

\* C10: in fast mode the light field is indexed only inside its extents, at the scaled
\* coordinates rounded to the nearest integer and then clamped.
C10_QuickIndexInRange ==
    (PixelDone /\ quick) =>
        /\ ilx \in 0..(lf.xSize-1) /\ ily \in 0..(lf.ySize-1)
        /\ ilu \in 0..(lf.uSize-1) /\ ilv \in 0..(lf.vSize-1)
        /\ InBuffer(stack[lf.image], LFIndex(lf, ilx, ily, ilu, ilv)[1],
                    LFIndex(lf, ilx, ily, ilu, ilv)[2], 0, 0)
        /\ IsRoundedClamped(ilx, lx, lf.xSize) /\ IsRoundedClamped(ily, ly, lf.ySize)
        /\ IsRoundedClamped(ilu, lu, lf.uSize) /\ IsRoundedClamped(ilv, lv, lf.vSize)

C10_Witness ==
    /\ PixelDone /\ quick /\ lf.xSize = 2 /\ lf.ySize = 2
    /\ lx < 0 /\ ilx = 0 /\ ly > CoordDen /\ ily = 1

=============================================================================
